---- MODULE Spec2Model ----
(***************************************************************************)
(* LTC3335 software correction tables and the battery-voltage lookup       *)
(* LTC3335_Get_Software_Correction_Factor of                               *)
(* libraries/LTC3335/LTC3335_Correction_Tables.cpp.                        *)
(*                                                                         *)
(* The build configuration (IPEAK, VOUT) selects one of the 64 tables by   *)
(* conditional compilation; the function clamps the battery voltage to the *)
(* table's range and interpolates linearly between two neighbouring        *)
(* entries.  Integer widths are those of the AVR target the file is        *)
(* written for (PROGMEM, pgm_read_word): int is 16 bits, long is 32 bits.  *)
(***************************************************************************)
EXTENDS Integers, Sequences, FiniteSets, TLC

(***************************************************************************)
(* Bounds of the model.                                                    *)
(***************************************************************************)
\* Half-width of the windows of call arguments explored around 0, around
\* the table's voltage range, and around the 16-bit wrap-around point.
MaxMargin == 150

\* Number of callers that may be inside the function at once.
NumCallers == 2

\* The callers' arguments: MaxCallArgs + 1 voltages, CallStride apart, the
\* first one MaxMargin below the table's range.
MaxCallArgs == 4

CallStride == 1050

(***************************************************************************)
(* Definitions (source lines 116-120).                                     *)
(***************************************************************************)
LTC3335_VBAT_MIN == 1800

LTC3335_VBAT_STEP == 100

LTC3335_VBAT_NUM == 38

\* The last voltage computed from the number of entries, not of steps.
VbatMaxOneStepBeyond == LTC3335_VBAT_MIN + LTC3335_VBAT_STEP * LTC3335_VBAT_NUM

LTC3335_VBAT_MAX == LTC3335_VBAT_MIN + LTC3335_VBAT_STEP * (LTC3335_VBAT_NUM - 1)

(***************************************************************************)
(* Integer conversions of the C types used by the function.                *)
(***************************************************************************)
\* Conversion to uint16_t (the type of the parameter vbat and of the value
\* pgm_read_word returns): reduction modulo 2^16.
ToUint16(x) == x % 65536

\* factor1, factor2 and the result declared uint16_t, the type that
\* pgm_read_word returns, where the code declares them int16_t.
FactorAsUnsigned(x) == x % 65536

\* Conversion to int16_t (the type of factor1, factor2 and of the result).
ToInt16(x) == IF x % 65536 >= 32768 THEN (x % 65536) - 65536 ELSE x % 65536

\* Conversion to uint8_t (the cast in LTC3335_VBAT_TO_TABLE_INDEX).
ToUint8(x) == x % 256

\* C's integer division, which truncates toward zero (b > 0).
CDiv(a, b) == IF a >= 0 THEN a \div b ELSE -((-a) \div b)

(***************************************************************************)
(* Build configuration: the names of the values LTC3335_Config.h may give  *)
(* LTC3335_IPEAK_CONFIGURATION and LTC3335_OUTPUT_VOLTAGE.                 *)
(***************************************************************************)
\* The integer each configuration macro expands to in an #if (LTC3335.h):
\* the eight peak currents and the eight output voltages are enumerated.
IpeakMacro ==
  "5MA" :> 0 @@ "10MA" :> 1 @@ "15MA" :> 2 @@ "25MA" :> 3 @@
  "50MA" :> 4 @@ "100MA" :> 5 @@ "150MA" :> 6 @@ "250MA" :> 7

VoutMacro ==
  "1_8V" :> 0 @@ "2_5V" :> 1 @@ "2_8V" :> 2 @@ "3_0V" :> 3 @@
  "3_3V" :> 4 @@ "3_6V" :> 5 @@ "4_5V" :> 6 @@ "5_0V" :> 7

Configs == [ipeak : DOMAIN IpeakMacro, vout : DOMAIN VoutMacro]

\* LTC3335_USE_SOFTWARE_CORRECTION is defined in every build that contains
\* the function: the function refers to the table unconditionally.
LTC3335_USE_SOFTWARE_CORRECTION == TRUE

(***************************************************************************)
(* Local data: the 64 definitions of LTC3335_Software_Correction_Table,    *)
(* each with the source line of the definition and the two #if guards that *)
(* enclose it.                                                             *)
(***************************************************************************)
TableDefinitions == <<
  [line |-> 135, ipeak |-> "5MA", vout |-> "1_8V", data |-> <<10886, 11274, 11652, 12022, 12387, 12748, 13108, 13467, 13826, 14187, 14549, 14915, 15282, 15653, 16027, 16403, 16781, 17162, 17545, 17929, 18314, 18700, 19087, 19473, 19860, 20247, 20634, 21021, 21409, 21798, 22188, 22581, 22979, 23381, 23791, 24210, 24640, 25085>>],
  [line |-> 138, ipeak |-> "5MA", vout |-> "2_5V", data |-> <<9622, 9958, 10287, 10609, 10927, 11241, 11553, 11864, 12176, 12488, 12802, 13119, 13438, 13761, 14087, 14416, 14750, 15087, 15428, 15772, 16120, 16472, 16827, 17185, 17546, 17909, 18276, 18645, 19016, 19390, 19766, 20145, 20527, 20911, 21298, 21690, 22085, 22485>>],
  [line |-> 141, ipeak |-> "5MA", vout |-> "2_8V", data |-> <<9114, 9461, 9794, 10116, 10430, 10737, 11040, 11340, 11638, 11937, 12237, 12540, 12845, 13153, 13465, 13781, 14102, 14427, 14756, 15089, 15427, 15768, 16113, 16461, 16813, 17167, 17524, 17883, 18244, 18608, 18974, 19343, 19714, 20088, 20466, 20848, 21235, 21627>>],
  [line |-> 144, ipeak |-> "5MA", vout |-> "3_0V", data |-> <<8819, 9164, 9494, 9813, 10123, 10426, 10724, 11020, 11313, 11606, 11901, 12197, 12495, 12797, 13103, 13412, 13726, 14044, 14366, 14693, 15023, 15358, 15696, 16038, 16382, 16730, 17081, 17435, 17790, 18149, 18509, 18872, 19238, 19607, 19979, 20355, 20736, 21122>>],
  [line |-> 147, ipeak |-> "5MA", vout |-> "3_3V", data |-> <<8426, 8759, 9080, 9392, 9696, 9994, 10288, 10579, 10868, 11157, 11446, 11736, 12029, 12324, 12622, 12923, 13228, 13537, 13850, 14167, 14488, 14813, 15141, 15473, 15809, 16149, 16491, 16837, 17185, 17537, 17891, 18248, 18607, 18969, 19335, 19703, 20075, 20451>>],
  [line |-> 150, ipeak |-> "5MA", vout |-> "3_6V", data |-> <<8058, 8385, 8701, 9009, 9310, 9606, 9898, 10186, 10473, 10759, 11045, 11331, 11619, 11908, 12200, 12495, 12793, 13094, 13399, 13708, 14020, 14337, 14657, 14982, 15310, 15642, 15977, 16316, 16659, 17004, 17353, 17705, 18059, 18416, 18776, 19138, 19503, 19869>>],
  [line |-> 153, ipeak |-> "5MA", vout |-> "4_5V", data |-> <<6891, 7319, 7709, 8068, 8401, 8713, 9010, 9294, 9569, 9839, 10106, 10372, 10639, 10908, 11181, 11457, 11738, 12024, 12315, 12610, 12910, 13215, 13523, 13835, 14151, 14469, 14789, 15111, 15436, 15763, 16092, 16424, 16760, 17101, 17447, 17802, 18166, 18542>>],
  [line |-> 156, ipeak |-> "5MA", vout |-> "5_0V", data |-> <<6630, 6964, 7289, 7605, 7914, 8216, 8512, 8803, 9090, 9374, 9655, 9933, 10210, 10487, 10763, 11039, 11316, 11595, 11876, 12159, 12445, 12734, 13027, 13323, 13624, 13929, 14239, 14553, 14872, 15197, 15526, 15861, 16200, 16544, 16894, 17247, 17606, 17968>>],
  [line |-> 161, ipeak |-> "10MA", vout |-> "1_8V", data |-> <<4951, 5152, 5354, 5559, 5766, 5977, 6191, 6410, 6633, 6860, 7092, 7328, 7569, 7815, 8065, 8320, 8580, 8844, 9112, 9384, 9661, 9941, 10225, 10512, 10803, 11097, 11394, 11694, 11997, 12302, 12610, 12921, 13234, 13550, 13869, 14191, 14516, 14844>>],
  [line |-> 164, ipeak |-> "10MA", vout |-> "2_5V", data |-> <<4225, 4386, 4552, 4722, 4897, 5077, 5262, 5451, 5645, 5843, 6046, 6253, 6464, 6679, 6898, 7121, 7348, 7578, 7812, 8050, 8291, 8535, 8783, 9034, 9288, 9547, 9809, 10074, 10344, 10618, 10897, 11180, 11469, 11763, 12064, 12371, 12686, 13008>>],
  [line |-> 167, ipeak |-> "10MA", vout |-> "2_8V", data |-> <<3832, 4025, 4213, 4398, 4580, 4762, 4944, 5127, 5312, 5500, 5691, 5885, 6083, 6285, 6491, 6702, 6917, 7136, 7360, 7588, 7820, 8056, 8295, 8539, 8786, 9037, 9291, 9549, 9810, 10075, 10344, 10617, 10895, 11177, 11466, 11761, 12063, 12373>>],
  [line |-> 170, ipeak |-> "10MA", vout |-> "3_0V", data |-> <<3603, 3812, 4011, 4203, 4389, 4572, 4752, 4932, 5112, 5294, 5478, 5666, 5857, 6052, 6252, 6456, 6664, 6878, 7095, 7318, 7545, 7775, 8010, 8249, 8491, 8737, 8986, 9239, 9495, 9754, 10017, 10284, 10556, 10832, 11114, 11403, 11699, 12004>>],
  [line |-> 173, ipeak |-> "10MA", vout |-> "3_3V", data |-> <<3312, 3533, 3741, 3937, 4126, 4308, 4486, 4662, 4837, 5013, 5191, 5371, 5555, 5742, 5934, 6131, 6332, 6538, 6748, 6964, 7183, 7407, 7634, 7866, 8101, 8339, 8581, 8826, 9074, 9325, 9580, 9839, 10103, 10372, 10646, 10928, 11219, 11519>>],
  [line |-> 176, ipeak |-> "10MA", vout |-> "3_6V", data |-> <<3058, 3283, 3493, 3690, 3879, 4060, 4237, 4411, 4584, 4757, 4932, 5109, 5288, 5471, 5658, 5850, 6046, 6246, 6450, 6659, 6872, 7089, 7310, 7534, 7762, 7993, 8227, 8464, 8705, 8949, 9197, 9449, 9706, 9969, 10238, 10516, 10802, 11100>>],
  [line |-> 179, ipeak |-> "10MA", vout |-> "4_5V", data |-> <<2148, 2424, 2678, 2913, 3132, 3338, 3534, 3723, 3905, 4084, 4261, 4438, 4614, 4792, 4972, 5154, 5340, 5529, 5722, 5918, 6118, 6321, 6529, 6739, 6953, 7171, 7391, 7614, 7841, 8071, 8304, 8540, 8781, 9026, 9276, 9532, 9796, 10068>>],
  [line |-> 182, ipeak |-> "10MA", vout |-> "5_0V", data |-> <<1588, 1914, 2209, 2478, 2725, 2953, 3167, 3369, 3562, 3748, 3930, 4109, 4287, 4465, 4644, 4825, 5008, 5195, 5385, 5578, 5775, 5975, 6179, 6386, 6597, 6811, 7028, 7248, 7472, 7698, 7928, 8162, 8400, 8642, 8891, 9146, 9410, 9683>>],
  [line |-> 187, ipeak |-> "15MA", vout |-> "1_8V", data |-> <<3046, 3189, 3325, 3457, 3587, 3717, 3850, 3986, 4126, 4272, 4425, 4583, 4749, 4921, 5100, 5286, 5478, 5675, 5878, 6086, 6298, 6514, 6734, 6956, 7182, 7410, 7640, 7873, 8109, 8349, 8592, 8841, 9095, 9358, 9630, 9914, 10211, 10526>>],
  [line |-> 190, ipeak |-> "15MA", vout |-> "2_5V", data |-> <<2510, 2635, 2754, 2869, 2981, 3093, 3207, 3323, 3442, 3567, 3696, 3832, 3973, 4120, 4274, 4434, 4599, 4770, 4946, 5127, 5312, 5502, 5695, 5891, 6091, 6294, 6499, 6707, 6918, 7133, 7352, 7575, 7804, 8039, 8283, 8536, 8802, 9082>>],
  [line |-> 193, ipeak |-> "15MA", vout |-> "2_8V", data |-> <<2346, 2455, 2561, 2666, 2772, 2879, 2988, 3100, 3216, 3337, 3462, 3592, 3728, 3869, 4015, 4167, 4323, 4484, 4651, 4821, 4996, 5174, 5357, 5543, 5732, 5925, 6121, 6321, 6524, 6731, 6942, 7158, 7380, 7608, 7843, 8087, 8340, 8606>>],
  [line |-> 196, ipeak |-> "15MA", vout |-> "3_0V", data |-> <<2187, 2304, 2416, 2525, 2632, 2740, 2849, 2960, 3074, 3192, 3315, 3441, 3573, 3710, 3851, 3998, 4150, 4306, 4467, 4632, 4802, 4976, 5153, 5334, 5518, 5706, 5897, 6091, 6289, 6491, 6698, 6909, 7126, 7349, 7579, 7819, 8068, 8330>>],
  [line |-> 199, ipeak |-> "15MA", vout |-> "3_3V", data |-> <<1888, 2037, 2173, 2299, 2418, 2533, 2645, 2756, 2869, 2983, 3101, 3222, 3348, 3479, 3615, 3756, 3902, 4053, 4208, 4369, 4533, 4702, 4874, 5049, 5228, 5409, 5594, 5782, 5973, 6167, 6366, 6570, 6779, 6996, 7221, 7457, 7705, 7968>>],
  [line |-> 202, ipeak |-> "15MA", vout |-> "3_6V", data |-> <<1567, 1753, 1918, 2065, 2199, 2323, 2441, 2555, 2668, 2780, 2895, 3013, 3135, 3262, 3394, 3531, 3673, 3821, 3973, 4130, 4291, 4456, 4625, 4796, 4970, 5147, 5326, 5508, 5693, 5881, 6072, 6269, 6472, 6684, 6905, 7139, 7388, 7655>>],
  [line |-> 205, ipeak |-> "15MA", vout |-> "4_5V", data |-> <<904, 1094, 1267, 1426, 1576, 1717, 1852, 1983, 2112, 2239, 2366, 2493, 2622, 2752, 2885, 3021, 3159, 3300, 3444, 3590, 3740, 3892, 4046, 4204, 4363, 4526, 4692, 4860, 5032, 5208, 5389, 5576, 5770, 5971, 6182, 6404, 6640, 6892>>],
  [line |-> 208, ipeak |-> "15MA", vout |-> "5_0V", data |-> <<245, 579, 861, 1099, 1302, 1477, 1631, 1769, 1896, 2017, 2133, 2249, 2367, 2487, 2611, 2740, 2874, 3013, 3157, 3306, 3459, 3615, 3774, 3935, 4097, 4261, 4425, 4590, 4757, 4924, 5095, 5270, 5451, 5641, 5844, 6062, 6301, 6565>>],
  [line |-> 213, ipeak |-> "25MA", vout |-> "1_8V", data |-> <<2264, 2228, 2213, 2216, 2236, 2272, 2321, 2383, 2456, 2539, 2631, 2731, 2838, 2952, 3071, 3196, 3325, 3458, 3596, 3736, 3880, 4027, 4177, 4330, 4486, 4645, 4808, 4973, 5142, 5315, 5491, 5672, 5858, 6049, 6245, 6447, 6656, 6871>>],
  [line |-> 216, ipeak |-> "25MA", vout |-> "2_5V", data |-> <<1958, 1938, 1931, 1936, 1953, 1981, 2018, 2065, 2121, 2185, 2257, 2336, 2421, 2512, 2609, 2711, 2818, 2930, 3046, 3166, 3289, 3416, 3546, 3680, 3817, 3956, 4099, 4245, 4395, 4547, 4703, 4863, 5027, 5195, 5367, 5545, 5728, 5916>>],
  [line |-> 219, ipeak |-> "25MA", vout |-> "2_8V", data |-> <<1648, 1689, 1727, 1765, 1802, 1842, 1885, 1933, 1985, 2043, 2107, 2178, 2255, 2338, 2427, 2523, 2624, 2731, 2843, 2959, 3080, 3204, 3332, 3462, 3595, 3730, 3868, 4007, 4149, 4293, 4440, 4590, 4744, 4903, 5068, 5240, 5421, 5614>>],
  [line |-> 222, ipeak |-> "25MA", vout |-> "3_0V", data |-> <<1498, 1559, 1612, 1660, 1705, 1750, 1795, 1843, 1895, 1951, 2013, 2080, 2154, 2234, 2320, 2413, 2511, 2615, 2724, 2837, 2955, 3077, 3202, 3330, 3460, 3592, 3727, 3863, 4001, 4141, 4284, 4430, 4580, 4735, 4896, 5065, 5243, 5434>>],
  [line |-> 225, ipeak |-> "25MA", vout |-> "3_3V", data |-> <<1359, 1418, 1471, 1519, 1566, 1612, 1659, 1708, 1761, 1817, 1879, 1946, 2018, 2096, 2179, 2268, 2363, 2462, 2567, 2676, 2789, 2905, 3025, 3148, 3274, 3402, 3533, 3665, 3800, 3937, 4077, 4220, 4366, 4517, 4674, 4837, 5008, 5190>>],
  [line |-> 228, ipeak |-> "25MA", vout |-> "3_6V", data |-> <<1267, 1307, 1347, 1388, 1430, 1475, 1524, 1575, 1631, 1691, 1755, 1823, 1897, 1974, 2057, 2144, 2236, 2331, 2432, 2536, 2643, 2755, 2870, 2988, 3109, 3233, 3360, 3490, 3623, 3758, 3897, 4038, 4183, 4332, 4484, 4642, 4804, 4972>>],
  [line |-> 231, ipeak |-> "25MA", vout |-> "4_5V", data |-> <<644, 746, 837, 920, 998, 1071, 1142, 1211, 1280, 1350, 1421, 1494, 1570, 1649, 1731, 1817, 1906, 1998, 2095, 2194, 2297, 2402, 2511, 2622, 2736, 2852, 2971, 3091, 3214, 3339, 3466, 3596, 3729, 3866, 4007, 4153, 4304, 4463>>],
  [line |-> 234, ipeak |-> "25MA", vout |-> "5_0V", data |-> <<539, 591, 649, 712, 779, 850, 923, 1000, 1079, 1159, 1242, 1326, 1411, 1498, 1586, 1675, 1766, 1858, 1952, 2047, 2145, 2244, 2345, 2449, 2556, 2666, 2778, 2894, 3013, 3136, 3263, 3394, 3529, 3668, 3811, 3958, 4109, 4264>>],
  [line |-> 239, ipeak |-> "50MA", vout |-> "1_8V", data |-> <<252, 168, 104, 60, 32, 20, 22, 36, 62, 98, 143, 196, 256, 323, 395, 472, 554, 639, 728, 820, 915, 1012, 1113, 1216, 1322, 1430, 1541, 1656, 1774, 1895, 2021, 2151, 2286, 2427, 2574, 2727, 2888, 3057>>],
  [line |-> 242, ipeak |-> "50MA", vout |-> "2_5V", data |-> <<-195, -220, -236, -245, -245, -237, -222, -199, -170, -133, -90, -41, 14, 74, 139, 208, 282, 359, 440, 525, 612, 702, 794, 889, 987, 1086, 1189, 1293, 1400, 1511, 1624, 1742, 1863, 1990, 2123, 2262, 2409, 2565>>],
  [line |-> 245, ipeak |-> "50MA", vout |-> "2_8V", data |-> <<-391, -375, -362, -348, -334, -317, -297, -273, -245, -211, -172, -128, -78, -23, 38, 103, 173, 247, 326, 407, 493, 580, 671, 764, 858, 955, 1054, 1154, 1257, 1362, 1470, 1582, 1698, 1820, 1948, 2084, 2231, 2389>>],
  [line |-> 248, ipeak |-> "50MA", vout |-> "3_0V", data |-> <<-510, -474, -445, -421, -398, -376, -352, -327, -298, -265, -227, -184, -136, -83, -25, 38, 107, 179, 256, 336, 420, 506, 595, 686, 779, 874, 971, 1069, 1169, 1271, 1376, 1485, 1599, 1718, 1844, 1979, 2126, 2285>>],
  [line |-> 251, ipeak |-> "50MA", vout |-> "3_3V", data |-> <<-672, -618, -574, -537, -505, -475, -446, -416, -384, -350, -311, -268, -221, -169, -112, -50, 16, 87, 161, 239, 321, 405, 491, 579, 670, 762, 855, 951, 1048, 1147, 1250, 1356, 1467, 1583, 1708, 1841, 1986, 2146>>],
  [line |-> 254, ipeak |-> "50MA", vout |-> "3_6V", data |-> <<-824, -762, -710, -665, -625, -587, -551, -515, -478, -438, -396, -350, -301, -248, -191, -129, -64, 5, 77, 153, 231, 312, 396, 482, 569, 659, 750, 844, 939, 1037, 1138, 1243, 1353, 1468, 1591, 1722, 1865, 2020>>],
  [line |-> 257, ipeak |-> "50MA", vout |-> "4_5V", data |-> <<-1329, -1232, -1145, -1066, -993, -926, -863, -802, -744, -687, -630, -574, -516, -458, -399, -337, -274, -209, -142, -72, 0, 74, 151, 230, 312, 396, 483, 573, 665, 761, 860, 963, 1070, 1181, 1298, 1422, 1551, 1689>>],
  [line |-> 260, ipeak |-> "50MA", vout |-> "5_0V", data |-> <<-1585, -1457, -1346, -1248, -1161, -1082, -1010, -942, -878, -815, -754, -693, -632, -569, -506, -441, -374, -306, -236, -165, -92, -18, 58, 135, 213, 292, 373, 456, 542, 630, 722, 818, 920, 1029, 1146, 1274, 1415, 1570>>],
  [line |-> 265, ipeak |-> "100MA", vout |-> "1_8V", data |-> <<549, 287, 77, -88, -212, -302, -363, -399, -414, -411, -393, -362, -322, -274, -218, -157, -92, -23, 50, 125, 204, 285, 369, 455, 545, 638, 735, 834, 937, 1044, 1153, 1266, 1380, 1496, 1612, 1727, 1839, 1948>>],
  [line |-> 268, ipeak |-> "100MA", vout |-> "2_5V", data |-> <<-470, -604, -705, -778, -827, -855, -864, -858, -839, -809, -770, -724, -671, -613, -550, -484, -415, -344, -270, -194, -116, -35, 47, 132, 220, 311, 405, 502, 602, 706, 813, 923, 1037, 1153, 1271, 1391, 1512, 1632>>],
  [line |-> 271, ipeak |-> "100MA", vout |-> "2_8V", data |-> <<-763, -831, -882, -917, -938, -946, -944, -932, -911, -882, -846, -804, -756, -703, -645, -584, -518, -449, -376, -300, -221, -139, -53, 35, 126, 219, 316, 415, 517, 621, 727, 836, 946, 1057, 1170, 1282, 1395, 1507>>],
  [line |-> 274, ipeak |-> "100MA", vout |-> "3_0V", data |-> <<-935, -970, -995, -1010, -1016, -1013, -1003, -985, -960, -929, -893, -851, -803, -752, -695, -634, -570, -501, -429, -353, -274, -192, -106, -18, 73, 167, 264, 363, 464, 567, 672, 779, 887, 997, 1107, 1218, 1329, 1439>>],
  [line |-> 277, ipeak |-> "100MA", vout |-> "3_3V", data |-> <<-1163, -1170, -1171, -1165, -1152, -1134, -1111, -1082, -1048, -1010, -967, -920, -869, -814, -756, -693, -628, -559, -487, -412, -334, -253, -169, -83, 6, 98, 192, 288, 387, 487, 590, 695, 802, 910, 1020, 1132, 1244, 1358>>],
  [line |-> 280, ipeak |-> "100MA", vout |-> "3_6V", data |-> <<-1362, -1359, -1348, -1330, -1305, -1274, -1238, -1197, -1151, -1102, -1049, -993, -934, -873, -809, -742, -674, -603, -531, -456, -379, -300, -219, -136, -51, 36, 126, 219, 314, 412, 512, 615, 721, 830, 943, 1058, 1176, 1297>>],
  [line |-> 283, ipeak |-> "100MA", vout |-> "4_5V", data |-> <<-1905, -1859, -1809, -1753, -1695, -1633, -1569, -1503, -1436, -1367, -1297, -1226, -1155, -1083, -1010, -937, -863, -787, -711, -634, -555, -474, -392, -308, -222, -133, -42, 51, 147, 245, 346, 449, 555, 662, 771, 882, 994, 1106>>],
  [line |-> 286, ipeak |-> "100MA", vout |-> "5_0V", data |-> <<-2470, -2317, -2180, -2057, -1946, -1845, -1752, -1665, -1584, -1507, -1433, -1361, -1290, -1220, -1149, -1077, -1004, -930, -853, -775, -694, -612, -526, -439, -349, -258, -164, -69, 28, 126, 225, 326, 427, 529, 631, 734, 837, 941>>],
  [line |-> 291, ipeak |-> "150MA", vout |-> "1_8V", data |-> <<476, 251, 58, -106, -244, -357, -449, -520, -573, -611, -633, -643, -641, -629, -609, -580, -544, -503, -456, -405, -351, -293, -232, -169, -104, -37, 32, 102, 174, 247, 322, 399, 478, 558, 641, 727, 816, 907>>],
  [line |-> 294, ipeak |-> "150MA", vout |-> "2_5V", data |-> <<-306, -464, -596, -704, -793, -862, -915, -953, -978, -991, -994, -988, -973, -951, -922, -888, -848, -804, -756, -704, -649, -590, -529, -465, -399, -330, -260, -187, -113, -38, 39, 116, 194, 272, 350, 427, 502, 575>>],
  [line |-> 297, ipeak |-> "150MA", vout |-> "2_8V", data |-> <<-492, -607, -707, -792, -864, -924, -971, -1006, -1031, -1045, -1051, -1047, -1036, -1017, -991, -959, -921, -878, -831, -780, -725, -666, -605, -542, -476, -409, -340, -269, -197, -123, -48, 28, 105, 185, 266, 349, 436, 525>>],
  [line |-> 300, ipeak |-> "150MA", vout |-> "3_0V", data |-> <<-625, -720, -803, -875, -935, -985, -1024, -1054, -1074, -1085, -1088, -1083, -1071, -1051, -1026, -994, -957, -916, -869, -819, -765, -709, -649, -587, -522, -456, -387, -318, -246, -173, -98, -22, 57, 137, 221, 307, 396, 490>>],
  [line |-> 303, ipeak |-> "150MA", vout |-> "3_3V", data |-> <<-845, -922, -986, -1038, -1081, -1113, -1136, -1152, -1159, -1159, -1153, -1140, -1122, -1099, -1071, -1038, -1001, -960, -916, -868, -817, -763, -707, -647, -585, -520, -453, -384, -312, -239, -162, -84, -4, 78, 163, 249, 338, 428>>],
  [line |-> 306, ipeak |-> "150MA", vout |-> "3_6V", data |-> <<-1068, -1133, -1183, -1219, -1244, -1258, -1264, -1263, -1255, -1242, -1224, -1201, -1175, -1146, -1114, -1079, -1041, -1001, -957, -912, -863, -812, -758, -701, -641, -578, -511, -442, -370, -295, -217, -137, -55, 28, 111, 194, 275, 355>>],
  [line |-> 309, ipeak |-> "150MA", vout |-> "4_5V", data |-> <<-1501, -1502, -1501, -1498, -1492, -1483, -1472, -1458, -1440, -1420, -1397, -1370, -1340, -1307, -1271, -1232, -1190, -1146, -1098, -1048, -995, -940, -883, -823, -762, -698, -633, -566, -498, -428, -357, -284, -210, -136, -60, 18, 96, 175>>],
  [line |-> 312, ipeak |-> "150MA", vout |-> "5_0V", data |-> <<-1790, -1791, -1784, -1769, -1747, -1720, -1688, -1653, -1615, -1574, -1531, -1487, -1441, -1395, -1349, -1301, -1254, -1205, -1157, -1107, -1057, -1007, -955, -901, -846, -790, -731, -670, -605, -538, -468, -394, -316, -234, -148, -57, 38, 138>>],
  [line |-> 317, ipeak |-> "250MA", vout |-> "1_8V", data |-> <<1007, 754, 530, 332, 159, 10, -117, -224, -311, -381, -434, -473, -498, -511, -513, -505, -489, -466, -435, -400, -360, -316, -269, -219, -168, -115, -61, -6, 50, 107, 165, 224, 285, 348, 414, 484, 559, 639>>],
  [line |-> 320, ipeak |-> "250MA", vout |-> "2_5V", data |-> <<308, 39, -184, -366, -514, -632, -724, -793, -844, -880, -901, -912, -914, -908, -897, -879, -858, -833, -804, -773, -739, -702, -662, -619, -574, -525, -473, -419, -361, -300, -236, -169, -101, -32, 37, 105, 171, 233>>],
  [line |-> 323, ipeak |-> "250MA", vout |-> "2_8V", data |-> <<90, -128, -314, -473, -607, -717, -807, -879, -933, -974, -1001, -1017, -1023, -1020, -1010, -993, -971, -943, -912, -877, -840, -800, -757, -712, -666, -618, -567, -515, -461, -404, -345, -283, -218, -149, -77, 1, 83, 171>>],
  [line |-> 326, ipeak |-> "250MA", vout |-> "3_0V", data |-> <<-64, -247, -408, -548, -668, -769, -853, -922, -975, -1016, -1044, -1062, -1069, -1068, -1059, -1043, -1021, -994, -963, -928, -889, -848, -805, -760, -714, -665, -615, -564, -511, -456, -398, -337, -273, -203, -129, -48, 41, 139>>],
  [line |-> 329, ipeak |-> "250MA", vout |-> "3_3V", data |-> <<-301, -443, -570, -681, -778, -860, -930, -987, -1032, -1067, -1091, -1106, -1113, -1112, -1104, -1089, -1069, -1044, -1014, -981, -944, -905, -863, -818, -772, -724, -673, -621, -567, -511, -452, -390, -324, -254, -179, -97, -7, 91>>],
  [line |-> 332, ipeak |-> "250MA", vout |-> "3_6V", data |-> <<-518, -637, -742, -831, -907, -971, -1023, -1065, -1098, -1122, -1138, -1146, -1148, -1144, -1135, -1121, -1102, -1078, -1051, -1021, -986, -949, -909, -866, -820, -771, -720, -666, -610, -550, -488, -423, -354, -283, -208, -130, -48, 38>>],
  [line |-> 335, ipeak |-> "250MA", vout |-> "4_5V", data |-> <<-874, -988, -1082, -1160, -1223, -1272, -1309, -1336, -1352, -1361, -1361, -1355, -1343, -1326, -1305, -1279, -1251, -1219, -1184, -1146, -1107, -1065, -1021, -976, -928, -879, -827, -774, -718, -660, -600, -537, -472, -405, -334, -261, -185, -106>>],
  [line |-> 338, ipeak |-> "250MA", vout |-> "5_0V", data |-> <<-1252, -1277, -1299, -1319, -1335, -1349, -1358, -1364, -1366, -1365, -1359, -1350, -1337, -1321, -1302, -1279, -1254, -1227, -1197, -1165, -1131, -1095, -1058, -1019, -978, -936, -892, -846, -798, -747, -693, -636, -574, -507, -434, -354, -265, -167>>]
>>

(***************************************************************************)
(* Conditional compilation (source lines 132-341).                         *)
(***************************************************************************)
\* The nesting lost: only the outer #if on the peak current guards d.
OuterConditionOnly(d, cfg) ==
  /\ LTC3335_USE_SOFTWARE_CORRECTION
  /\ IpeakMacro[cfg.ipeak] = IpeakMacro[d.ipeak]

\* The definition d is compiled in the build configured as cfg when the
\* #ifdef and the two nested #if conditions that enclose it all hold.
ConditionalInclusion(d, cfg) ==
  /\ LTC3335_USE_SOFTWARE_CORRECTION
  /\ IpeakMacro[cfg.ipeak] = IpeakMacro[d.ipeak]
  /\ VoutMacro[cfg.vout] = VoutMacro[d.vout]

\* The definitions of the table that survive preprocessing.
CompiledDefinitions(cfg) ==
  {i \in 1..Len(TableDefinitions) : ConditionalInclusion(TableDefinitions[i], cfg)}

\* The table of the build: the array the compiled definition initialises.
LTC3335_Software_Correction_Table(cfg) ==
  TableDefinitions[CHOOSE i \in CompiledDefinitions(cfg) : TRUE].data

(***************************************************************************)
(* LTC3335_Get_Software_Correction_Factor (source lines 354-371).          *)
(***************************************************************************)
\* The index rounded to the nearest node where the code rounds it down.
IndexRoundedToNearest(v) ==
  ToUint8(ToUint16(v - LTC3335_VBAT_MIN + LTC3335_VBAT_STEP \div 2) \div LTC3335_VBAT_STEP)

\* The macro of line 120.  Its operand is an unsigned int (vbat) or a
\* non-negative int constant, so the subtraction is reduced modulo 2^16.
LTC3335_VBAT_TO_TABLE_INDEX(v) ==
  ToUint8(ToUint16(v - LTC3335_VBAT_MIN) \div LTC3335_VBAT_STEP)

\* A read of one byte where the table's 16-bit words are read.
pgm_read_byte(tbl, i) == ToUint16(tbl[i + 1]) % 256

\* pgm_read_word(&LTC3335_Software_Correction_Table[i]): the 16-bit word
\* stored for entry i (C arrays count from 0, TLA+ sequences from 1).
pgm_read_word(tbl, i) == ToUint16(tbl[i + 1])

\* vbat - (LTC3335_VBAT_MIN + index * LTC3335_VBAT_STEP), in unsigned int.
Offset(v, index) ==
  ToUint16(v - (LTC3335_VBAT_MIN + index * LTC3335_VBAT_STEP))

\* The numerator with the whole step added where half of it belongs.
NumeratorFullStep(factor1, factor2, v, index) ==
  (factor2 - factor1) * Offset(v, index) + LTC3335_VBAT_STEP

\* (int32_t) (factor2 - factor1) * offset + LTC3335_VBAT_STEP/2.  The
\* difference is taken in int and cast; the product, the sum and the
\* division that follows are in int32_t.  The model checker's integers are
\* themselves 32 bits wide and it stops on overflow, so a value computed
\* here is the int32_t value.
Numerator(factor1, factor2, v, index) ==
  (factor2 - factor1) * Offset(v, index) + LTC3335_VBAT_STEP \div 2

\* The return expression of line 369, converted to the int16_t returned.
Interpolate(factor1, factor2, v, index) ==
  ToInt16(factor1 + CDiv(Numerator(factor1, factor2, v, index), LTC3335_VBAT_STEP))

\* The lower clamp returning the entry of the upper one.
ClampLowReadsMax(tbl) ==
  ToInt16(pgm_read_word(tbl, LTC3335_VBAT_TO_TABLE_INDEX(LTC3335_VBAT_MAX)))

\* The branch vbat <= LTC3335_VBAT_MIN (lines 356-359).
ClampLow(tbl) ==
  ToInt16(pgm_read_word(tbl, LTC3335_VBAT_TO_TABLE_INDEX(LTC3335_VBAT_MIN)))

\* The upper clamp returning the entry of the lower one.
ClampHighReadsMin(tbl) ==
  ToInt16(pgm_read_word(tbl, LTC3335_VBAT_TO_TABLE_INDEX(LTC3335_VBAT_MIN)))

\* The branch vbat >= LTC3335_VBAT_MAX (lines 360-363).
ClampHigh(tbl) ==
  ToInt16(pgm_read_word(tbl, LTC3335_VBAT_TO_TABLE_INDEX(LTC3335_VBAT_MAX)))

\* The interpolating branch (lines 364-370).
InterpolateBetween(tbl, v) ==
  LET index == LTC3335_VBAT_TO_TABLE_INDEX(v)
      factor1 == ToInt16(pgm_read_word(tbl, index))
      factor2 == ToInt16(pgm_read_word(tbl, index + 1))
  IN  Interpolate(factor1, factor2, v, index)

\* The whole function, for the table tbl and the parameter value v.
LTC3335_Get_Software_Correction_Factor(tbl, v) ==
  IF v <= LTC3335_VBAT_MIN THEN ClampLow(tbl)
  ELSE IF v >= LTC3335_VBAT_MAX THEN ClampHigh(tbl)
  ELSE InterpolateBetween(tbl, v)

\* The indices of LTC3335_Software_Correction_Table that a call with the
\* parameter value v hands to pgm_read_word (lines 358, 362, 367, 368).
TableReads(v) ==
  IF v <= LTC3335_VBAT_MIN THEN {LTC3335_VBAT_TO_TABLE_INDEX(LTC3335_VBAT_MIN)}
  ELSE IF v >= LTC3335_VBAT_MAX THEN {LTC3335_VBAT_TO_TABLE_INDEX(LTC3335_VBAT_MAX)}
  ELSE {LTC3335_VBAT_TO_TABLE_INDEX(v), LTC3335_VBAT_TO_TABLE_INDEX(v) + 1}

\* The indices the array LTC3335_Software_Correction_Table[LTC3335_VBAT_NUM]
\* has (line 135 and the 63 definitions like it).
TableIndices == 0..(LTC3335_VBAT_NUM - 1)

\* A read outside the array is undefined: the call may return any int16_t.
UndefinedResults == -32768..32767

\* The parameter declared int16_t where the code declares uint16_t.
ParameterValueSigned(a) == ToInt16(a)

\* The conversion of the caller's argument to the uint16_t parameter.
ParameterValue(a) == ToUint16(a)

(***************************************************************************)
(* The documented use of the factor (source lines 17-33): multiply the     *)
(* unadjusted value by the factor, shift right by 16, add to the value.    *)
(***************************************************************************)
ExampleCount == 31638

ApplyCorrection(value, factor) == value + ((value * factor) \div 65536)

(***************************************************************************)
(* State.                                                                  *)
(***************************************************************************)
VARIABLES
  cfg,        \* the build configuration [ipeak, vout]
  table,      \* the array LTC3335_Software_Correction_Table in program memory
  arg,        \* the integer the caller passes
  vbat,       \* the parameter of the call in progress or last made
  result,     \* the value the call returned
  pc,         \* "idle", "done" (the call returned), "adjusted"
  unadjusted, \* the count the consumer corrects
  adjusted,   \* the corrected count
  reads,      \* the table indices the call read
  cpc,        \* per caller: its position inside the function
  carg,       \* per caller: the integer it passes
  cvbat,      \* per caller: its parameter vbat
  frame,      \* per frame: the locals index, factor1, factor2
  cret,       \* per caller: the value its call returns
  memo        \* the parameter and result of one earlier call, or NoCall

fnVars == <<arg, vbat, result, pc, unadjusted, adjusted, reads>>

callVars == <<cpc, carg, cvbat, frame, cret, memo>>

vars == <<cfg, table, arg, vbat, result, pc, unadjusted, adjusted, reads, cpc, carg, cvbat, frame, cret, memo>>

\* Arguments explored: windows around 0, the whole range of the table with
\* a margin on both sides, and windows around 2^16 and 2^16 + the range.
Args ==
  (-MaxMargin .. MaxMargin)
    \cup ((LTC3335_VBAT_MIN - MaxMargin) .. (LTC3335_VBAT_MAX + MaxMargin))
    \cup ((65536 - MaxMargin) .. (65536 + MaxMargin))
    \cup ((65536 + LTC3335_VBAT_MIN - MaxMargin) .. (65536 + LTC3335_VBAT_MIN + MaxMargin))
    \cup ((65536 + LTC3335_VBAT_MAX - MaxMargin) .. (65536 + LTC3335_VBAT_MAX + MaxMargin))

Callers == 1..NumCallers

\* The locals of a frame that no call is using.
NoLocals == [index |-> 0, factor1 |-> 0, factor2 |-> 0]

NoCall == [called |-> FALSE, vbat |-> 0, ret |-> 0]

InitCallers ==
  /\ cpc = [c \in Callers |-> "idle"]
  /\ carg = [c \in Callers |-> 0]
  /\ cvbat = [c \in Callers |-> 0]
  /\ frame = [c \in Callers |-> NoLocals]
  /\ cret = [c \in Callers |-> 0]
  /\ memo = NoCall

Init ==
  /\ cfg \in Configs
  /\ table = LTC3335_Software_Correction_Table(cfg)
  /\ arg \in Args
  /\ vbat = 0
  /\ result = 0
  /\ pc = "idle"
  /\ unadjusted = 0
  /\ adjusted = 0
  /\ reads = {}
  /\ InitCallers

\* One call of the function with the argument arg.
Call ==
  /\ pc = "idle"
  /\ vbat' = ParameterValue(arg)
  /\ reads' = TableReads(vbat')
  /\ result' \in
       IF reads' \subseteq TableIndices
         THEN {LTC3335_Get_Software_Correction_Factor(table, vbat')}
         ELSE UndefinedResults
  /\ pc' = "done"
  /\ UNCHANGED <<cfg, table, arg, unadjusted, adjusted>>
  /\ UNCHANGED callVars

\* The consumer corrects a count with the factor returned.
Adjust ==
  /\ pc = "done"
  /\ unadjusted' = ExampleCount
  /\ adjusted' = ApplyCorrection(unadjusted', result)
  /\ pc' = "adjusted"
  /\ UNCHANGED <<cfg, table, arg, vbat, result, reads>>
  /\ UNCHANGED callVars

Next == Call \/ Adjust

Spec == Init /\ [][Next]_vars

(***************************************************************************)
(* The function executed step by step by several callers (main program and *)
(* interrupt handlers), each step atomic: the branch test, the read of a   *)
(* clamped entry, the index computation, the two table reads and the       *)
(* arithmetic.  The table is read-only flash; index, factor1 and factor2   *)
(* are automatic variables, so every call has a frame of its own.          *)
(***************************************************************************)
\* The builds explored step by step: the documented example and a table
\* with falling segments.
CallConfigs ==
  {[ipeak |-> "10MA", vout |-> "3_3V"], [ipeak |-> "250MA", vout |-> "1_8V"]}

CallArgs == {LTC3335_VBAT_MIN - MaxMargin + CallStride * i : i \in 0..MaxCallArgs}

\* The locals declared static: their values outlive the call.
StaticLocals(locals) == locals

\* The locals are automatic (lines 366-368): they end with the call, and
\* nothing of them is left in the frame it releases.
ReleasedLocals(locals) == NoLocals

\* The locals declared static: one frame shared by all the calls.
StaticFrame(c) == 1

\* The frame that holds the locals of caller c's call (lines 366-368).
FrameOf(c) == c

InitCalls ==
  /\ cfg \in CallConfigs
  /\ table = LTC3335_Software_Correction_Table(cfg)
  /\ arg = 0
  /\ vbat = 0
  /\ result = 0
  /\ pc = "idle"
  /\ unadjusted = 0
  /\ adjusted = 0
  /\ reads = {}
  /\ InitCallers

\* Caller c calls the function with the argument a (line 354).
Enter(c, a) ==
  /\ cpc[c] = "idle"
  /\ carg' = [carg EXCEPT ![c] = a]
  /\ cvbat' = [cvbat EXCEPT ![c] = ParameterValue(a)]
  /\ cpc' = [cpc EXCEPT ![c] = "test"]
  /\ UNCHANGED <<cfg, table, frame, cret, memo>>
  /\ UNCHANGED fnVars

\* The two comparisons of lines 356 and 360.
Test(c) ==
  /\ cpc[c] = "test"
  /\ cpc' = [cpc EXCEPT ![c] =
       IF cvbat[c] <= LTC3335_VBAT_MIN THEN "low"
       ELSE IF cvbat[c] >= LTC3335_VBAT_MAX THEN "high"
       ELSE "index"]
  /\ UNCHANGED <<cfg, table, carg, cvbat, frame, cret, memo>>
  /\ UNCHANGED fnVars

\* Line 358.
ReadLow(c) ==
  /\ cpc[c] = "low"
  /\ cret' = [cret EXCEPT ![c] = ClampLow(table)]
  /\ cpc' = [cpc EXCEPT ![c] = "done"]
  /\ UNCHANGED <<cfg, table, carg, cvbat, frame, memo>>
  /\ UNCHANGED fnVars

\* Line 362.
ReadHigh(c) ==
  /\ cpc[c] = "high"
  /\ cret' = [cret EXCEPT ![c] = ClampHigh(table)]
  /\ cpc' = [cpc EXCEPT ![c] = "done"]
  /\ UNCHANGED <<cfg, table, carg, cvbat, frame, memo>>
  /\ UNCHANGED fnVars

\* Line 366.
ComputeIndex(c) ==
  /\ cpc[c] = "index"
  /\ frame' = [frame EXCEPT ![FrameOf(c)].index = LTC3335_VBAT_TO_TABLE_INDEX(cvbat[c])]
  /\ cpc' = [cpc EXCEPT ![c] = "read1"]
  /\ UNCHANGED <<cfg, table, carg, cvbat, cret, memo>>
  /\ UNCHANGED fnVars

\* Line 367.
ReadFactor1(c) ==
  /\ cpc[c] = "read1"
  /\ frame' = [frame EXCEPT ![FrameOf(c)].factor1 =
       ToInt16(pgm_read_word(table, frame[FrameOf(c)].index))]
  /\ cpc' = [cpc EXCEPT ![c] = "read2"]
  /\ UNCHANGED <<cfg, table, carg, cvbat, cret, memo>>
  /\ UNCHANGED fnVars

\* Line 368.
ReadFactor2(c) ==
  /\ cpc[c] = "read2"
  /\ frame' = [frame EXCEPT ![FrameOf(c)].factor2 =
       ToInt16(pgm_read_word(table, frame[FrameOf(c)].index + 1))]
  /\ cpc' = [cpc EXCEPT ![c] = "arith"]
  /\ UNCHANGED <<cfg, table, carg, cvbat, cret, memo>>
  /\ UNCHANGED fnVars

\* Line 369.
Arithmetic(c) ==
  /\ cpc[c] = "arith"
  /\ cret' = [cret EXCEPT ![c] =
       Interpolate(frame[FrameOf(c)].factor1, frame[FrameOf(c)].factor2,
                   cvbat[c], frame[FrameOf(c)].index)]
  /\ cpc' = [cpc EXCEPT ![c] = "done"]
  /\ UNCHANGED <<cfg, table, carg, cvbat, frame, memo>>
  /\ UNCHANGED fnVars

\* The caller takes the value; the call's frame is released.  The call may
\* be the one remembered in memo for comparison with later calls.
Return(c) ==
  /\ cpc[c] = "done"
  /\ \E remember \in BOOLEAN :
       memo' = IF remember
                 THEN [called |-> TRUE, vbat |-> cvbat[c], ret |-> cret[c]]
                 ELSE memo
  /\ frame' = [frame EXCEPT ![FrameOf(c)] = ReleasedLocals(frame[FrameOf(c)])]
  /\ cpc' = [cpc EXCEPT ![c] = "idle"]
  /\ carg' = [carg EXCEPT ![c] = 0]
  /\ cvbat' = [cvbat EXCEPT ![c] = 0]
  /\ cret' = [cret EXCEPT ![c] = 0]
  /\ UNCHANGED <<cfg, table>>
  /\ UNCHANGED fnVars

NextCalls ==
  \E c \in Callers :
    \/ \E a \in CallArgs : Enter(c, a)
    \/ Test(c)
    \/ ReadLow(c)
    \/ ReadHigh(c)
    \/ ComputeIndex(c)
    \/ ReadFactor1(c)
    \/ ReadFactor2(c)
    \/ Arithmetic(c)
    \/ Return(c)

SpecCalls == InitCalls /\ [][NextCalls]_vars

TypeOK ==
  /\ cfg \in Configs
  /\ result \in -32768..32767
  /\ vbat \in 0..65535

(***************************************************************************)
(* Properties.                                                             *)
(***************************************************************************)
\* The table of the build, and its entry k counted from 0 as in the code.
Table == table

Entry(k) == Table[k + 1]

\* The call has returned.
Returned == pc \in {"done", "adjusted"}

\* The integer nearest to n / d, a tie going up (d > 0).
RoundHalfUp(n, d) == (2 * n + d) \div (2 * d)

\* C1: in the interpolating branch (1800 < vbat < 5500) the result is
\* lo + round((hi - lo) * (vbat - (1800 + index*100)) / 100) with
\* index = (vbat - 1800) div 100, lo = table[index], hi = table[index+1] and
\* round the nearest integer, ties going up, also where hi < lo.
C1_InterpolationRoundsHalfUp ==
  (Returned /\ vbat > LTC3335_VBAT_MIN /\ vbat < LTC3335_VBAT_MAX) =>
    LET index == (vbat - LTC3335_VBAT_MIN) \div LTC3335_VBAT_STEP
        lo == Entry(index)
        hi == Entry(index + 1)
        rem == vbat - (LTC3335_VBAT_MIN + index * LTC3335_VBAT_STEP)
    IN  result = lo + RoundHalfUp((hi - lo) * rem, LTC3335_VBAT_STEP)

\* C2: for every vbat <= 1800 the function returns the table's entry at
\* index 0 unchanged.
C2_ClampBelow ==
  (Returned /\ vbat <= LTC3335_VBAT_MIN) => result = Entry(0)

C2_Witness ==
  /\ pc = "done"
  /\ vbat < LTC3335_VBAT_MIN
  /\ vbat > 0
  /\ result = Entry(0)
  /\ Entry(0) # Entry(1)

\* C3: for every vbat >= 5500 the function returns the table's entry at
\* index 37 unchanged.
C3_ClampAbove ==
  (Returned /\ vbat >= LTC3335_VBAT_MAX) => result = Entry(LTC3335_VBAT_NUM - 1)

C3_Witness ==
  /\ pc = "done"
  /\ vbat > LTC3335_VBAT_MAX
  /\ result = Entry(LTC3335_VBAT_NUM - 1)
  /\ Entry(LTC3335_VBAT_NUM - 1) # Entry(LTC3335_VBAT_NUM - 2)

\* C4 as stated: for every integer argument, negative ones and ones above
\* 65535 included, the call returns table[0] when the argument is <= 1800
\* and table[37] when it is >= 5500.
C4_ClampsEveryInteger ==
  Returned =>
    /\ (arg <= LTC3335_VBAT_MIN => result = Entry(0))
    /\ (arg >= LTC3335_VBAT_MAX => result = Entry(LTC3335_VBAT_NUM - 1))

\* C4 as amended: every integer argument yields a result, and the clamping
\* applies to the argument reduced modulo 2^16, the value the uint16_t
\* parameter receives; an argument in 0..65535 is clamped as it is.
C4_ClampsParameterValue ==
  Returned =>
    /\ vbat = arg % 65536
    /\ (arg % 65536 <= LTC3335_VBAT_MIN => result = Entry(0))
    /\ (arg % 65536 >= LTC3335_VBAT_MAX => result = Entry(LTC3335_VBAT_NUM - 1))
    /\ (arg \in 0..65535 /\ arg <= LTC3335_VBAT_MIN => result = Entry(0))
    /\ (arg \in 0..65535 /\ arg >= LTC3335_VBAT_MAX => result = Entry(LTC3335_VBAT_NUM - 1))

C4_Witness ==
  /\ pc = "done"
  /\ arg > 65535 + LTC3335_VBAT_MAX
  /\ vbat > LTC3335_VBAT_MAX
  /\ result = Entry(LTC3335_VBAT_NUM - 1)

\* C5: at every table node the interpolation is the identity: for every k
\* in 0..37 the call with vbat = 1800 + 100*k returns table[k].
C5_NodeIdentity ==
  \A k \in 0..(LTC3335_VBAT_NUM - 1) :
    (Returned /\ vbat = LTC3335_VBAT_MIN + LTC3335_VBAT_STEP * k) => result = Entry(k)

C5_Witness ==
  /\ pc = "done"
  /\ vbat = LTC3335_VBAT_MIN + LTC3335_VBAT_STEP * 5
  /\ result = Entry(5)
  /\ Entry(6) < Entry(5)

\* C6: with the table for IPEAK = 10 mA and VOUT = 3.3 V the function
\* returns 3312 for 1800, 11519 for 5500 and 8826 for 4500.
C6_ExampleTable ==
  (Returned /\ cfg = [ipeak |-> "10MA", vout |-> "3_3V"]) =>
    /\ (vbat = 1800 => result = 3312)
    /\ (vbat = 5500 => result = 11519)
    /\ (vbat = 4500 => result = 8826)

C6_Witness ==
  /\ pc = "done"
  /\ cfg = [ipeak |-> "10MA", vout |-> "3_3V"]
  /\ vbat = 4500
  /\ result = 8826

\* C7: in the documented example (IPEAK = 10 mA, VOUT = 3.3 V, vbat = 4500,
\* factor 8826) correcting the count 31638 (multiply by the factor, shift
\* right by 16, add to the count) yields 35899.
C7_DocumentedAdjustment ==
  (/\ pc = "adjusted"
   /\ cfg = [ipeak |-> "10MA", vout |-> "3_3V"]
   /\ vbat = 4500
   /\ result = 8826
   /\ unadjusted = 31638) => adjusted = 35899

\* C8: two calls with the same vbat return the identical value, whatever
\* calls happened in between: a call that has computed its value for the
\* vbat of the remembered earlier call has computed the remembered value.
C8_SameInputSameValue ==
  \A c \in Callers :
    (cpc[c] = "done" /\ memo.called /\ cvbat[c] = memo.vbat) => cret[c] = memo.ret

C8_Witness ==
  /\ memo.called
  /\ memo.vbat > LTC3335_VBAT_MIN
  /\ memo.vbat < LTC3335_VBAT_MAX
  /\ cpc[1] = "done"
  /\ cvbat[1] = memo.vbat
  /\ cret[1] = memo.ret
  /\ cpc[2] = "done"
  /\ cvbat[2] # memo.vbat
  /\ cret[2] # memo.ret

\* C9: under every interleaving of the callers' steps each caller obtains
\* the value that a call with its argument returns when it runs alone.
C9_InterleavedCallsAgree ==
  \A c \in Callers :
    cpc[c] = "done" =>
      cret[c] = LTC3335_Get_Software_Correction_Factor(
                  LTC3335_Software_Correction_Table(cfg), ParameterValue(carg[c]))

C9_Witness ==
  /\ cpc[1] = "done"
  /\ cpc[2] = "arith"
  /\ cvbat[1] > LTC3335_VBAT_MIN
  /\ cvbat[1] < LTC3335_VBAT_MAX
  /\ frame[FrameOf(1)].index # frame[FrameOf(2)].index
  /\ frame[FrameOf(1)].factor1 # frame[FrameOf(2)].factor1
  /\ cret[1] = LTC3335_Get_Software_Correction_Factor(
                 LTC3335_Software_Correction_Table(cfg), cvbat[1])

\* C11: every table access of a call is in bounds: a clamping branch reads
\* only index 0 or index 37, and in the interpolating branch the computed
\* index is in 0..36, so that table[index] and table[index+1] are entries
\* 0..37.
C11_ReadsInBounds ==
  Returned =>
    /\ reads \subseteq 0..37
    /\ (vbat <= LTC3335_VBAT_MIN => reads = {0})
    /\ (vbat >= LTC3335_VBAT_MAX => reads = {37})
    /\ (vbat > LTC3335_VBAT_MIN /\ vbat < LTC3335_VBAT_MAX =>
          \E index \in 0..36 : reads = {index, index + 1})

C11_Witness ==
  /\ pc = "done"
  /\ vbat = LTC3335_VBAT_MAX - 1
  /\ reads = {36, 37}

\* C10: the configuration pair of the build selects exactly one definition
\* of the table, never none and never two, and no other pair selects the
\* definition it selects.
C10_ExactlyOneTable ==
  /\ Cardinality(CompiledDefinitions(cfg)) = 1
  /\ \A i \in CompiledDefinitions(cfg) :
       \A other \in Configs :
         ConditionalInclusion(TableDefinitions[i], other) => other = cfg

C10_Witness ==
  /\ pc = "done"
  /\ cfg = [ipeak |-> "250MA", vout |-> "5_0V"]
  /\ CompiledDefinitions(cfg) = {Len(TableDefinitions)}

\* The interpolating branch was taken by the call that returned.
Interpolated == Returned /\ vbat > LTC3335_VBAT_MIN /\ vbat < LTC3335_VBAT_MAX

\* The segment of the call: the node at or below vbat, its two entries, the
\* distance of vbat from the node and the exact numerator of the quotient.
SegIndex == (vbat - LTC3335_VBAT_MIN) \div LTC3335_VBAT_STEP

SegLo == Entry(SegIndex)

SegHi == Entry(SegIndex + 1)

SegRem == vbat - (LTC3335_VBAT_MIN + SegIndex * LTC3335_VBAT_STEP)

SegProduct == (SegHi - SegLo) * SegRem

\* C12: with the table for IPEAK = 10 mA and VOUT = 3.3 V the call at the
\* midpoint 4550 returns 8826 + round((9074 - 8826) * 50 / 100) = 8950.
C12_ExampleMidpoint ==
  (Returned /\ cfg = [ipeak |-> "10MA", vout |-> "3_3V"] /\ vbat = 4550) =>
    /\ Entry(27) = 8826
    /\ Entry(28) = 9074
    /\ result = 8826 + RoundHalfUp((9074 - 8826) * 50, 100)
    /\ result = 8950

C12_Witness ==
  /\ pc = "done"
  /\ cfg = [ipeak |-> "10MA", vout |-> "3_3V"]
  /\ vbat = 4550
  /\ result = 8950

\* The exact quotient SegProduct / 100 lies half-way between two integers.
HalfStepTie == SegProduct % LTC3335_VBAT_STEP = LTC3335_VBAT_STEP \div 2

\* The exact quotient rounded toward positive and toward negative infinity.
TowardPlusInfinity == -((-SegProduct) \div LTC3335_VBAT_STEP)

TowardMinusInfinity == SegProduct \div LTC3335_VBAT_STEP

\* C13 as stated: at an exact half-step tie a negative-slope segment rounds
\* toward positive infinity and a positive-slope segment rounds in the
\* other direction.
C13_TieDirectionsDiffer ==
  (Interpolated /\ HalfStepTie) =>
    IF SegHi < SegLo
      THEN result = SegLo + TowardPlusInfinity
      ELSE result = SegLo + TowardMinusInfinity

\* C13 as amended: at an exact half-step tie the formula rounds toward
\* positive infinity on negative-slope and on positive-slope segments
\* alike; the two differ only relative to zero (a negative tie moves toward
\* zero, a positive one away from it).
C13_TiesRoundTowardPlusInfinity ==
  (Interpolated /\ HalfStepTie) =>
    /\ result = SegLo + TowardPlusInfinity
    /\ (SegHi < SegLo => result - SegLo = CDiv(SegProduct, LTC3335_VBAT_STEP))
    /\ (SegHi > SegLo => result - SegLo = CDiv(SegProduct, LTC3335_VBAT_STEP) + 1)

C13_Witness ==
  /\ pc = "done"
  /\ Interpolated
  /\ HalfStepTie
  /\ SegHi < SegLo
  /\ result = SegLo + TowardPlusInfinity
  /\ result > SegLo + TowardMinusInfinity

\* The values the interpolating branch computes with for the call that
\* returned: its index, the two factors it read and its numerator.
CallIndex == LTC3335_VBAT_TO_TABLE_INDEX(vbat)

CallFactor1 == ToInt16(pgm_read_word(Table, CallIndex))

CallFactor2 == ToInt16(pgm_read_word(Table, CallIndex + 1))

CallNumerator == Numerator(CallFactor1, CallFactor2, vbat, CallIndex)

\* C14: in the interpolating branch the difference of the two adjacent
\* entries has magnitude at most 2500, and (hi - lo) * remainder + 50 stays
\* within the signed 32-bit range (it is at most 2500 * 99 + 50 in
\* magnitude), so the 32-bit computation never overflows.
C14_NoOverflow ==
  Interpolated =>
    LET difference == CallFactor2 - CallFactor1
        numerator == CallNumerator
    IN  /\ difference <= 2500
        /\ difference >= -2500
        /\ numerator <= 2500 * 99 + 50
        /\ numerator >= -(2500 * 99) + 50
        /\ numerator <= 2147483647
        /\ numerator >= -2147483647 - 1

C14_Witness ==
  /\ pc = "done"
  /\ Interpolated
  /\ CallFactor2 - CallFactor1 = 445
  /\ Offset(vbat, CallIndex) = 99
  /\ CallNumerator = 445 * 99 + 50

\* C15: no call changes any state: through every sequence of calls the
\* active table keeps the entries it had at build time, and a call that
\* has returned leaves no other state behind (its locals are gone).
C15_NoStateChange ==
  /\ [](table = LTC3335_Software_Correction_Table(cfg))
  /\ [][table' = table]_vars
  /\ [](\A c \in Callers : cpc[c] = "idle" => frame[FrameOf(c)] = NoLocals)

C15_Witness ==
  /\ memo.called
  /\ memo.vbat > LTC3335_VBAT_MIN
  /\ memo.vbat < LTC3335_VBAT_MAX
  /\ \A c \in Callers : cpc[c] = "idle" /\ frame[FrameOf(c)] = NoLocals
  /\ table = LTC3335_Software_Correction_Table(cfg)

\* C16: VBAT_MIN = 1800, VBAT_STEP = 100, VBAT_NUM = 38 and
\* VBAT_MAX = VBAT_MIN + VBAT_STEP * (VBAT_NUM - 1) = 5500; the index
\* computed for VBAT_MIN is 0 and the one for VBAT_MAX is 37, and these are
\* the entries a call at either end of the range reads.
C16_VoltageDomain ==
  /\ LTC3335_VBAT_MIN = 1800
  /\ LTC3335_VBAT_STEP = 100
  /\ LTC3335_VBAT_NUM = 38
  /\ LTC3335_VBAT_MAX = 5500
  /\ LTC3335_VBAT_MAX - LTC3335_VBAT_MIN = LTC3335_VBAT_STEP * (LTC3335_VBAT_NUM - 1)
  /\ LTC3335_VBAT_TO_TABLE_INDEX(LTC3335_VBAT_MIN) = 0
  /\ LTC3335_VBAT_TO_TABLE_INDEX(LTC3335_VBAT_MAX) = 37
  /\ (Returned /\ vbat = 1800 => reads = {0})
  /\ (Returned /\ vbat = 5500 => reads = {37})

C16_Witness ==
  /\ pc = "done"
  /\ vbat = LTC3335_VBAT_MAX
  /\ reads = {LTC3335_VBAT_NUM - 1}
  /\ result = Entry(37)

\* C17 as stated: the table has 38 entries, indexed 0..37, for the voltages
\* 1800, 1900, ..., 5300: entry k is the value returned for the k-th
\* voltage and the last entry is the one for 5300 mV.
C17_LastEntryAt5300 ==
  /\ Len(Table) = 38
  /\ \A k \in 0..35 :
       (Returned /\ vbat = 1800 + 100 * k) => result = Entry(k)
  /\ (Returned /\ vbat = 5300) => result = Entry(37)

\* C17 as amended: the table has 38 entries, indexed 0..37, for the
\* voltages 1800, 1900, ..., 5500: entry k is the value returned for
\* 1800 + 100*k and the last entry is the one for 5500 mV (5300 mV has
\* entry 35).
C17_LastEntryAt5500 ==
  /\ Len(Table) = 38
  /\ 1800 + 100 * (Len(Table) - 1) = 5500
  /\ \A k \in 0..(Len(Table) - 1) :
       (Returned /\ vbat = 1800 + 100 * k) => (result = Entry(k) /\ k \in reads)
  /\ (Returned /\ vbat = 5500) => result = Entry(Len(Table) - 1)
  /\ (Returned /\ vbat = 5300) => result = Entry(35)

C17_Witness ==
  /\ pc = "done"
  /\ vbat = 5500
  /\ result = Entry(37)
  /\ result # Entry(35)

\* C18: in the interpolating branch the result lies between table[index]
\* and table[index+1] inclusive, on rising and on falling segments alike;
\* hence every result lies between the smallest and the largest entry of
\* the table and is the int16_t value of the sum without wrap-around.
C18_ResultBetweenNeighbours ==
  /\ Interpolated =>
       LET sum == CallFactor1 + CDiv(CallNumerator, LTC3335_VBAT_STEP)
       IN  /\ (SegLo <= SegHi => (SegLo <= result /\ result <= SegHi))
           /\ (SegHi <= SegLo => (SegHi <= result /\ result <= SegLo))
           /\ sum >= -32768
           /\ sum <= 32767
           /\ result = sum
  /\ Returned =>
       /\ \E k \in TableIndices : Entry(k) <= result
       /\ \E k \in TableIndices : result <= Entry(k)

C18_Witness ==
  /\ pc = "done"
  /\ Interpolated
  /\ SegHi < result
  /\ result < SegLo

\* The value the function returns for the next voltage, vbat + 1.
NextResult == LTC3335_Get_Software_Correction_Factor(Table, vbat + 1)

\* The table never falls from one entry to the next.
NonDecreasingTable == \A k \in 0..(LTC3335_VBAT_NUM - 2) : Entry(k) <= Entry(k + 1)

\* C19: the function preserves the table's local direction.  For vbat and
\* vbat + 1 both in 1800+100k .. 1800+100(k+1): the result does not fall
\* from vbat to vbat + 1 if table[k] <= table[k+1], and does not rise if
\* table[k] >= table[k+1] (step by step, this is monotonicity over the
\* whole range, nodes included).  For a table that never falls, the result
\* does not fall from any 16-bit vbat to vbat + 1.
C19_PreservesDirection ==
  /\ (Returned /\ vbat >= LTC3335_VBAT_MIN /\ vbat < LTC3335_VBAT_MAX) =>
       /\ (SegLo <= SegHi => result <= NextResult)
       /\ (SegLo >= SegHi => result >= NextResult)
  /\ (Returned /\ vbat < 65535 /\ NonDecreasingTable) => result <= NextResult

C19_Witness ==
  /\ pc = "done"
  /\ Interpolated
  /\ SegHi < SegLo
  /\ result > NextResult
  /\ NextResult > SegHi

\* C20: in the interpolating branch (vbat in 1801..5499) the offset
\* vbat - (1800 + index*100) is in 0..99, so the unsigned subtraction does
\* not wrap, and the quotient (vbat - 1800) / 100 fits the uint8_t index.
C20_OffsetWithinStep ==
  Interpolated =>
    LET quotient == (vbat - LTC3335_VBAT_MIN) \div LTC3335_VBAT_STEP
        difference == vbat - (LTC3335_VBAT_MIN + CallIndex * LTC3335_VBAT_STEP)
    IN  /\ vbat \in 1801..5499
        /\ difference >= 0
        /\ difference <= 99
        /\ Offset(vbat, CallIndex) = difference
        /\ quotient <= 255
        /\ CallIndex = quotient

C20_Witness ==
  /\ pc = "done"
  /\ vbat = 5499
  /\ CallIndex = 36
  /\ Offset(vbat, CallIndex) = 99

====
